---- MODULE Spec2Model ----
(***************************************************************************)
(* parse_dpcd.py: decoding of DisplayPort Configuration Data register      *)
(* dumps.  Text is modelled as sequences of one-character strings, so that *)
(* splitting, stripping, base-16 parsing and column formatting are         *)
(* computed character by character as the Python code computes them.       *)
(***************************************************************************)
EXTENDS Integers, Sequences, FiniteSets, TLC

\* Bounds of the model.
MaxLines == 2      \* lines read from the input by one run
MaxBytes == 2      \* byte tokens in the whole input of one run
MaxVal == 255      \* largest value handed directly to print_reg
Window == 2        \* print_reg is called within this distance of a catalogued address

VARIABLES
  regs,        \* the module-level dict DPCD_REGS
  max_len,     \* the module-level MAX_LEN_REG_NAME
  show_data,   \* args.data: expanded (TRUE) or compact (FALSE) mode
  out,         \* standard output: the sequence of printed lines
  calls,       \* history: the calls of print_reg, [addr, val, at (index in out of its first line)]
  log,         \* history: the lines read, [line, res, from (Len(out) before the line)]
  used,        \* byte tokens of the input consumed so far
  status       \* "running", "done" (end of input) or "error" (uncaught ValueError)

vars == <<regs, max_len, show_data, out, calls, log, used, status>>

---------------------------------------------------------------------------
\* Characters and text helpers.

\* A character is a one-character string.  A character above U+00FF, which a
\* string literal cannot hold, is written by its code point: "U+0661" is the
\* one character ARABIC-INDIC DIGIT ONE, "U+3000" the IDEOGRAPHIC SPACE.

\* The characters str.strip() removes (str.isspace): the ASCII blanks, the
\* controls VT and FS, GS, RS, US, NEL, NBSP and the Unicode spaces.
Whitespace ==
  { "\t", "\n", "", "\f", "\r", "", "", "", "", " ", "", " ", "U+1680",
    "U+2000", "U+2001", "U+2002", "U+2003", "U+2004", "U+2005", "U+2006",
    "U+2007", "U+2008", "U+2009", "U+200A", "U+2028", "U+2029", "U+202F",
    "U+205F", "U+3000" }

\* The characters int() skips around a number: VT and the blanks of ASCII, and
\* the whitespace beyond ASCII; not FS, GS, RS, US.
IntWhitespace ==
  { "\t", "\n", "", "\f", "\r", " ", "", " ", "U+1680", "U+2000", "U+2001",
    "U+2002", "U+2003", "U+2004", "U+2005", "U+2006", "U+2007", "U+2008",
    "U+2009", "U+200A", "U+2028", "U+2029", "U+202F", "U+205F", "U+3000" }

\* The decimal digits beyond ASCII (Unicode 14.0 category Nd, as in Python 3.11),
\* by value: UnicodeDigits[v + 1] holds the digits of value v.  int() reads each
\* as the ASCII digit of the same value.
UnicodeDigits ==
  << { "U+0660", "U+06F0", "U+07C0", "U+0966", "U+09E6", "U+0A66", "U+0AE6",
       "U+0B66", "U+0BE6", "U+0C66", "U+0CE6", "U+0D66", "U+0DE6", "U+0E50",
       "U+0ED0", "U+0F20", "U+1040", "U+1090", "U+17E0", "U+1810", "U+1946",
       "U+19D0", "U+1A80", "U+1A90", "U+1B50", "U+1BB0", "U+1C40", "U+1C50",
       "U+A620", "U+A8D0", "U+A900", "U+A9D0", "U+A9F0", "U+AA50", "U+ABF0",
       "U+FF10", "U+104A0", "U+10D30", "U+11066", "U+110F0", "U+11136",
       "U+111D0", "U+112F0", "U+11450", "U+114D0", "U+11650", "U+116C0",
       "U+11730", "U+118E0", "U+11950", "U+11C50", "U+11D50", "U+11DA0",
       "U+16A60", "U+16AC0", "U+16B50", "U+1D7CE", "U+1D7D8", "U+1D7E2",
       "U+1D7EC", "U+1D7F6", "U+1E140", "U+1E2F0", "U+1E950", "U+1FBF0" },
     { "U+0661", "U+06F1", "U+07C1", "U+0967", "U+09E7", "U+0A67", "U+0AE7",
       "U+0B67", "U+0BE7", "U+0C67", "U+0CE7", "U+0D67", "U+0DE7", "U+0E51",
       "U+0ED1", "U+0F21", "U+1041", "U+1091", "U+17E1", "U+1811", "U+1947",
       "U+19D1", "U+1A81", "U+1A91", "U+1B51", "U+1BB1", "U+1C41", "U+1C51",
       "U+A621", "U+A8D1", "U+A901", "U+A9D1", "U+A9F1", "U+AA51", "U+ABF1",
       "U+FF11", "U+104A1", "U+10D31", "U+11067", "U+110F1", "U+11137",
       "U+111D1", "U+112F1", "U+11451", "U+114D1", "U+11651", "U+116C1",
       "U+11731", "U+118E1", "U+11951", "U+11C51", "U+11D51", "U+11DA1",
       "U+16A61", "U+16AC1", "U+16B51", "U+1D7CF", "U+1D7D9", "U+1D7E3",
       "U+1D7ED", "U+1D7F7", "U+1E141", "U+1E2F1", "U+1E951", "U+1FBF1" },
     { "U+0662", "U+06F2", "U+07C2", "U+0968", "U+09E8", "U+0A68", "U+0AE8",
       "U+0B68", "U+0BE8", "U+0C68", "U+0CE8", "U+0D68", "U+0DE8", "U+0E52",
       "U+0ED2", "U+0F22", "U+1042", "U+1092", "U+17E2", "U+1812", "U+1948",
       "U+19D2", "U+1A82", "U+1A92", "U+1B52", "U+1BB2", "U+1C42", "U+1C52",
       "U+A622", "U+A8D2", "U+A902", "U+A9D2", "U+A9F2", "U+AA52", "U+ABF2",
       "U+FF12", "U+104A2", "U+10D32", "U+11068", "U+110F2", "U+11138",
       "U+111D2", "U+112F2", "U+11452", "U+114D2", "U+11652", "U+116C2",
       "U+11732", "U+118E2", "U+11952", "U+11C52", "U+11D52", "U+11DA2",
       "U+16A62", "U+16AC2", "U+16B52", "U+1D7D0", "U+1D7DA", "U+1D7E4",
       "U+1D7EE", "U+1D7F8", "U+1E142", "U+1E2F2", "U+1E952", "U+1FBF2" },
     { "U+0663", "U+06F3", "U+07C3", "U+0969", "U+09E9", "U+0A69", "U+0AE9",
       "U+0B69", "U+0BE9", "U+0C69", "U+0CE9", "U+0D69", "U+0DE9", "U+0E53",
       "U+0ED3", "U+0F23", "U+1043", "U+1093", "U+17E3", "U+1813", "U+1949",
       "U+19D3", "U+1A83", "U+1A93", "U+1B53", "U+1BB3", "U+1C43", "U+1C53",
       "U+A623", "U+A8D3", "U+A903", "U+A9D3", "U+A9F3", "U+AA53", "U+ABF3",
       "U+FF13", "U+104A3", "U+10D33", "U+11069", "U+110F3", "U+11139",
       "U+111D3", "U+112F3", "U+11453", "U+114D3", "U+11653", "U+116C3",
       "U+11733", "U+118E3", "U+11953", "U+11C53", "U+11D53", "U+11DA3",
       "U+16A63", "U+16AC3", "U+16B53", "U+1D7D1", "U+1D7DB", "U+1D7E5",
       "U+1D7EF", "U+1D7F9", "U+1E143", "U+1E2F3", "U+1E953", "U+1FBF3" },
     { "U+0664", "U+06F4", "U+07C4", "U+096A", "U+09EA", "U+0A6A", "U+0AEA",
       "U+0B6A", "U+0BEA", "U+0C6A", "U+0CEA", "U+0D6A", "U+0DEA", "U+0E54",
       "U+0ED4", "U+0F24", "U+1044", "U+1094", "U+17E4", "U+1814", "U+194A",
       "U+19D4", "U+1A84", "U+1A94", "U+1B54", "U+1BB4", "U+1C44", "U+1C54",
       "U+A624", "U+A8D4", "U+A904", "U+A9D4", "U+A9F4", "U+AA54", "U+ABF4",
       "U+FF14", "U+104A4", "U+10D34", "U+1106A", "U+110F4", "U+1113A",
       "U+111D4", "U+112F4", "U+11454", "U+114D4", "U+11654", "U+116C4",
       "U+11734", "U+118E4", "U+11954", "U+11C54", "U+11D54", "U+11DA4",
       "U+16A64", "U+16AC4", "U+16B54", "U+1D7D2", "U+1D7DC", "U+1D7E6",
       "U+1D7F0", "U+1D7FA", "U+1E144", "U+1E2F4", "U+1E954", "U+1FBF4" },
     { "U+0665", "U+06F5", "U+07C5", "U+096B", "U+09EB", "U+0A6B", "U+0AEB",
       "U+0B6B", "U+0BEB", "U+0C6B", "U+0CEB", "U+0D6B", "U+0DEB", "U+0E55",
       "U+0ED5", "U+0F25", "U+1045", "U+1095", "U+17E5", "U+1815", "U+194B",
       "U+19D5", "U+1A85", "U+1A95", "U+1B55", "U+1BB5", "U+1C45", "U+1C55",
       "U+A625", "U+A8D5", "U+A905", "U+A9D5", "U+A9F5", "U+AA55", "U+ABF5",
       "U+FF15", "U+104A5", "U+10D35", "U+1106B", "U+110F5", "U+1113B",
       "U+111D5", "U+112F5", "U+11455", "U+114D5", "U+11655", "U+116C5",
       "U+11735", "U+118E5", "U+11955", "U+11C55", "U+11D55", "U+11DA5",
       "U+16A65", "U+16AC5", "U+16B55", "U+1D7D3", "U+1D7DD", "U+1D7E7",
       "U+1D7F1", "U+1D7FB", "U+1E145", "U+1E2F5", "U+1E955", "U+1FBF5" },
     { "U+0666", "U+06F6", "U+07C6", "U+096C", "U+09EC", "U+0A6C", "U+0AEC",
       "U+0B6C", "U+0BEC", "U+0C6C", "U+0CEC", "U+0D6C", "U+0DEC", "U+0E56",
       "U+0ED6", "U+0F26", "U+1046", "U+1096", "U+17E6", "U+1816", "U+194C",
       "U+19D6", "U+1A86", "U+1A96", "U+1B56", "U+1BB6", "U+1C46", "U+1C56",
       "U+A626", "U+A8D6", "U+A906", "U+A9D6", "U+A9F6", "U+AA56", "U+ABF6",
       "U+FF16", "U+104A6", "U+10D36", "U+1106C", "U+110F6", "U+1113C",
       "U+111D6", "U+112F6", "U+11456", "U+114D6", "U+11656", "U+116C6",
       "U+11736", "U+118E6", "U+11956", "U+11C56", "U+11D56", "U+11DA6",
       "U+16A66", "U+16AC6", "U+16B56", "U+1D7D4", "U+1D7DE", "U+1D7E8",
       "U+1D7F2", "U+1D7FC", "U+1E146", "U+1E2F6", "U+1E956", "U+1FBF6" },
     { "U+0667", "U+06F7", "U+07C7", "U+096D", "U+09ED", "U+0A6D", "U+0AED",
       "U+0B6D", "U+0BED", "U+0C6D", "U+0CED", "U+0D6D", "U+0DED", "U+0E57",
       "U+0ED7", "U+0F27", "U+1047", "U+1097", "U+17E7", "U+1817", "U+194D",
       "U+19D7", "U+1A87", "U+1A97", "U+1B57", "U+1BB7", "U+1C47", "U+1C57",
       "U+A627", "U+A8D7", "U+A907", "U+A9D7", "U+A9F7", "U+AA57", "U+ABF7",
       "U+FF17", "U+104A7", "U+10D37", "U+1106D", "U+110F7", "U+1113D",
       "U+111D7", "U+112F7", "U+11457", "U+114D7", "U+11657", "U+116C7",
       "U+11737", "U+118E7", "U+11957", "U+11C57", "U+11D57", "U+11DA7",
       "U+16A67", "U+16AC7", "U+16B57", "U+1D7D5", "U+1D7DF", "U+1D7E9",
       "U+1D7F3", "U+1D7FD", "U+1E147", "U+1E2F7", "U+1E957", "U+1FBF7" },
     { "U+0668", "U+06F8", "U+07C8", "U+096E", "U+09EE", "U+0A6E", "U+0AEE",
       "U+0B6E", "U+0BEE", "U+0C6E", "U+0CEE", "U+0D6E", "U+0DEE", "U+0E58",
       "U+0ED8", "U+0F28", "U+1048", "U+1098", "U+17E8", "U+1818", "U+194E",
       "U+19D8", "U+1A88", "U+1A98", "U+1B58", "U+1BB8", "U+1C48", "U+1C58",
       "U+A628", "U+A8D8", "U+A908", "U+A9D8", "U+A9F8", "U+AA58", "U+ABF8",
       "U+FF18", "U+104A8", "U+10D38", "U+1106E", "U+110F8", "U+1113E",
       "U+111D8", "U+112F8", "U+11458", "U+114D8", "U+11658", "U+116C8",
       "U+11738", "U+118E8", "U+11958", "U+11C58", "U+11D58", "U+11DA8",
       "U+16A68", "U+16AC8", "U+16B58", "U+1D7D6", "U+1D7E0", "U+1D7EA",
       "U+1D7F4", "U+1D7FE", "U+1E148", "U+1E2F8", "U+1E958", "U+1FBF8" },
     { "U+0669", "U+06F9", "U+07C9", "U+096F", "U+09EF", "U+0A6F", "U+0AEF",
       "U+0B6F", "U+0BEF", "U+0C6F", "U+0CEF", "U+0D6F", "U+0DEF", "U+0E59",
       "U+0ED9", "U+0F29", "U+1049", "U+1099", "U+17E9", "U+1819", "U+194F",
       "U+19D9", "U+1A89", "U+1A99", "U+1B59", "U+1BB9", "U+1C49", "U+1C59",
       "U+A629", "U+A8D9", "U+A909", "U+A9D9", "U+A9F9", "U+AA59", "U+ABF9",
       "U+FF19", "U+104A9", "U+10D39", "U+1106F", "U+110F9", "U+1113F",
       "U+111D9", "U+112F9", "U+11459", "U+114D9", "U+11659", "U+116C9",
       "U+11739", "U+118E9", "U+11959", "U+11C59", "U+11D59", "U+11DA9",
       "U+16A69", "U+16AC9", "U+16B59", "U+1D7D7", "U+1D7E1", "U+1D7EB",
       "U+1D7F5", "U+1D7FF", "U+1E149", "U+1E2F9", "U+1E959", "U+1FBF9" } >>

HexLower == <<"0","1","2","3","4","5","6","7","8","9","a","b","c","d","e","f">>
HexUpper == <<"0","1","2","3","4","5","6","7","8","9","A","B","C","D","E","F">>

IsAsciiHexDigit(c) == \E i \in 1..16 : HexLower[i] = c \/ HexUpper[i] = c

IsUnicodeDigit(c) == \E v \in 1..10 : c \in UnicodeDigits[v]

IsHexDigit(c) == IsAsciiHexDigit(c) \/ IsUnicodeDigit(c)

\* The value of a base-16 digit, as int(.., 16) reads it (either case, or a
\* decimal digit of any script).
DigitValue(c) ==
  IF IsAsciiHexDigit(c) THEN (CHOOSE i \in 1..16 : HexLower[i] = c \/ HexUpper[i] = c) - 1
  ELSE (CHOOSE v \in 1..10 : c \in UnicodeDigits[v]) - 1

Spaces(w) == [i \in 1..w |-> " "]

\* "{:>{w}}": right-aligned in a field of at least w characters, never truncated.
PadLeft(s, w) == IF Len(s) >= w THEN s ELSE Spaces(w - Len(s)) \o s

RECURSIVE LStrip(_)
LStrip(s) == IF s # <<>> /\ Head(s) \in Whitespace THEN LStrip(Tail(s)) ELSE s

RECURSIVE RStrip(_)
RStrip(s) ==
  IF s # <<>> /\ s[Len(s)] \in Whitespace THEN RStrip(SubSeq(s, 1, Len(s) - 1)) ELSE s

\* str.strip()
Strip(s) == RStrip(LStrip(s))

\* str.split(sep) for a one-character separator: the segments between the
\* separators, empty segments kept, always at least one segment.
RECURSIVE Split(_, _)
Split(s, sep) ==
  IF \A i \in 1..Len(s) : s[i] # sep THEN <<s>>
  ELSE LET k == CHOOSE i \in 1..Len(s) : s[i] = sep /\ \A j \in 1..(i - 1) : s[j] # sep
       IN  <<SubSeq(s, 1, k - 1)>> \o Split(SubSeq(s, k + 1, Len(s)), sep)

RECURSIVE Flatten(_)
Flatten(ss) == IF ss = <<>> THEN <<>> ELSE Head(ss) \o Flatten(Tail(ss))

\* Digits of n >= 0 in the given base, most significant first ("0" for 0).
RECURSIVE Digits(_, _)
Digits(n, base) ==
  IF n < base THEN <<HexLower[n + 1]>>
  ELSE Digits(n \div base, base) \o <<HexLower[(n % base) + 1]>>

\* "{:x}": no minimum width.
FormatHex_NoPad(n, w) ==
  (IF n < 0 THEN <<"-">> ELSE <<>>) \o Digits(IF n < 0 THEN -n ELSE n, 16)

\* "{:0<w>x}": lowercase hex, sign first, zero-padded to a minimum width w.
FormatHex(n, w) ==
  LET sign == IF n < 0 THEN <<"-">> ELSE <<>>
      d    == Digits(IF n < 0 THEN -n ELSE n, 16)
      pad  == w - Len(sign) - Len(d)
  IN  sign \o (IF pad > 0 THEN [i \in 1..pad |-> "0"] ELSE <<>>) \o d

\* "{}" of an integer: plain decimal.
FormatDec(n) == (IF n < 0 THEN <<"-">> ELSE <<>>) \o Digits(IF n < 0 THEN -n ELSE n, 10)

\* val >> shift (arithmetic, on unbounded integers).
RECURSIVE Pow2(_)
Pow2(k) == IF k = 0 THEN 1 ELSE 2 * Pow2(k - 1)

Shr(val, shift) == val \div Pow2(shift)

\* a & mask for a mask >= 0 (two's complement on unbounded integers).
RECURSIVE BitAnd(_, _)
BitAnd(a, mask) ==
  IF mask = 0 THEN 0
  ELSE (a % 2) * (mask % 2) + 2 * BitAnd(a \div 2, mask \div 2)

\* int(s, 16): surrounding whitespace is skipped; an optional sign; an optional
\* 0x/0X prefix (the 0 a zero of any script), after which one underscore may
\* follow; then hex digits, single underscores allowed between digits only.  [ok |-> FALSE] stands for ValueError.
RECURSIVE DigitsOk(_, _)
DigitsOk(s, prev) ==
  IF s = <<>> THEN prev # "_" /\ prev # ""
  ELSE IF Head(s) = "_" THEN prev # "_" /\ prev # "" /\ DigitsOk(Tail(s), "_")
  ELSE IsHexDigit(Head(s)) /\ DigitsOk(Tail(s), Head(s))

RECURSIVE DigitsValue(_, _)
DigitsValue(s, acc) ==
  IF s = <<>> THEN acc
  ELSE IF Head(s) = "_" THEN DigitsValue(Tail(s), acc)
  ELSE DigitsValue(Tail(s), 16 * acc + DigitValue(Head(s)))

RECURSIVE IntLStrip(_)
IntLStrip(s) == IF s # <<>> /\ Head(s) \in IntWhitespace THEN IntLStrip(Tail(s)) ELSE s

RECURSIVE IntRStrip(_)
IntRStrip(s) ==
  IF s # <<>> /\ s[Len(s)] \in IntWhitespace THEN IntRStrip(SubSeq(s, 1, Len(s) - 1)) ELSE s

IntBase16(s) ==
  LET t      == IntRStrip(IntLStrip(s))
      signed == t # <<>> /\ Head(t) \in {"+", "-"}
      u      == IF signed THEN Tail(t) ELSE t
      pref   == Len(u) >= 2 /\ IsHexDigit(u[1]) /\ DigitValue(u[1]) = 0 /\ u[2] \in {"x", "X"}
      v      == IF pref THEN SubSeq(u, 3, Len(u)) ELSE u
      body   == IF pref /\ v # <<>> /\ Head(v) = "_" THEN Tail(v) ELSE v
  IN  IF DigitsOk(body, "")
      THEN [ok |-> TRUE,
            val |-> (IF signed /\ Head(t) = "-" THEN -1 ELSE 1) * DigitsValue(body, 0)]
      ELSE [ok |-> FALSE, val |-> 0]

---------------------------------------------------------------------------
\* The register catalog (namedtuples DPCDReg and DPCDData, dict DPCD_REGS).

None == <<>>   \* dpcd_data of a register without fields: falsy, like an empty list

DPCDReg(name, dpcd_data) == [name |-> name, dpcd_data |-> dpcd_data]

\* Mask and shift taken in the wrong order.
DPCDData_Swapped(name, mask, shift) == [name |-> name, mask |-> shift, shift |-> mask]

DPCDData(name, mask, shift) == [name |-> name, mask |-> mask, shift |-> shift]

DPCD_REGS ==
     (0 :> DPCDReg(<<"D","P","_","D","P","C","D","_","R","E","V">>,   \* 0x000
               <<DPCDData(<<"m","a","j","o","r">>, 15, 4),
                 DPCDData(<<"m","i","n","o","r">>, 15, 0)>>))
  @@ (1 :> DPCDReg(<<"M","A","X","_","L","I","N","K","_","R","A","T","E">>,   \* 0x001
               None))
  @@ (2 :> DPCDReg(<<"M","A","X","_","L","A","N","E","_","C","O","U","N","T">>,   \* 0x002
               <<DPCDData(<<"e","n","h","a","n","c","e","d"," ","f","r","a","m","e"," ","c","a","p">>, 1, 7),
                 DPCDData(<<"T","P","S","3"," ","s","u","p","p","o","r","t","e","d">>, 1, 6),
                 DPCDData(<<"m","a","x"," ","l","a","n","e","s">>, 31, 0)>>))
  @@ (3 :> DPCDReg(<<"M","A","X","_","D","O","W","N","S","P","R","E","A","D">>,   \* 0x003
               None))
  @@ (4 :> DPCDReg(<<"N","O","R","P"," ","&"," ","D","P","_","P","W","R","_","V","O","L","T","A","G","E","_","C","A","P">>,   \* 0x004
               <<DPCDData(<<"1","8","v","_","d","p","_","p","w","r","_","c","a","p">>, 1, 7),
                 DPCDData(<<"1","2","v","_","d","p","_","p","w","r","_","c","a","p">>, 1, 6),
                 DPCDData(<<"5","v","_","d","p","_","p","w","r","_","c","a","p">>, 1, 5),
                 DPCDData(<<"#","r","x"," ","p","o","r","t","s">>, 15, 0)>>))
  @@ (5 :> DPCDReg(<<"D","O","W","N","S","T","R","E","A","M","P","O","R","T","_","P","R","E","S","E","N","T">>,   \* 0x005
               <<DPCDData(<<"d","w","n","_","s","t","r","m","_","p","o","r","t","_","t","y","p","e">>, 2, 1),
                 DPCDData(<<"d","w","n","_","s","t","r","m","_","p","o","r","t","_","p","r","e","s","e","n","t">>, 1, 0)>>))
  @@ (6 :> DPCDReg(<<"M","A","I","N","_","L","I","N","K","_","C","H","A","N","N","E","L","_","C","O","D","I","N","G">>,   \* 0x006
               <<DPCDData(<<"a","n","s","i"," ","8","b","/","1","0","b">>, 1, 0)>>))
  @@ (7 :> DPCDReg(<<"M","A","I","N","_","L","I","N","K","_","C","H","A","N","N","E","L","_","C","O","D","I","N","G">>,   \* 0x007
               <<DPCDData(<<"O","U","I"," ","S","u","p","p","o","r","t">>, 1, 7),
                 DPCDData(<<"m","s","a","_","t","i","m","i","n","g","_","p","a","r","_","i","g","n","o","r","e","d">>, 1, 6),
                 DPCDData(<<"d","w","n","_","s","t","r","m","_","p","o","r","t","_","c","o","u","n","t">>, 15, 0)>>))
  @@ (8 :> DPCDReg(<<"R","E","C","E","I","V","E","_","P","O","R","T","0","_","C","A","P","_","0">>,   \* 0x008
               <<DPCDData(<<"a","s","s","o","c","i","a","t","e","d","_","t","o","_","p","r","e","c","e","d","i","n","g","_","p","o","r","t">>, 1, 2),
                 DPCDData(<<"l","o","c","a","l","_","e","d","i","d","_","p","r","e","s","e","n","t">>, 1, 1)>>))
  @@ (9 :> DPCDReg(<<"R","E","C","E","I","V","E","_","P","O","R","T","0","_","C","A","P","_","1">>,   \* 0x009
               <<DPCDData(<<"b","u","f","f","e","r","_","s","i","z","e">>, 255, 0)>>))
  @@ (10 :> DPCDReg(<<"R","E","C","E","I","V","E","_","P","O","R","T","1","_","C","A","P","_","0">>,   \* 0x00a
               <<DPCDData(<<"a","s","s","o","c","i","a","t","e","d","_","t","o","_","p","r","e","c","e","d","i","n","g","_","p","o","r","t">>, 1, 2),
                 DPCDData(<<"l","o","c","a","l","_","e","d","i","d","_","p","r","e","s","e","n","t">>, 1, 1)>>))
  @@ (11 :> DPCDReg(<<"R","E","C","E","I","V","E","_","P","O","R","T","1","_","C","A","P","_","1">>,   \* 0x00b
               <<DPCDData(<<"b","u","f","f","e","r","_","s","i","z","e">>, 255, 0)>>))
  @@ (12 :> DPCDReg(<<"I","2","C","_","S","P","E","E","D","_","C","O","N","T","R","O","L">>,   \* 0x00c
               None))
  @@ (13 :> DPCDReg(<<"e","D","P","_","C","O","N","F","I","G","U","R","A","T","I","O","N","_","C","A","P">>,   \* 0x00d
               <<DPCDData(<<"f","r","a","m","i","n","g","_","c","h","a","n","g","e","_","c","a","p","a","b","l","e">>, 1, 1),
                 DPCDData(<<"a","l","t","e","r","n","a","t","e","_","s","c","r","a","m","b","l","e","r","_","r","e","s","e","t","_","c","a","p","a","b","l","e">>, 1, 0)>>))
  @@ (14 :> DPCDReg(<<"T","R","A","I","N","I","N","G","_","A","U","X","_","R","D","_","I","N","T","E","R","V","A","L">>,   \* 0x00e
               None))
  @@ (256 :> DPCDReg(<<"L","I","N","K","_","B","W","_","S","E","T">>,   \* 0x100
               None))
  @@ (257 :> DPCDReg(<<"L","A","N","E","_","C","O","U","N","T","_","S","E","T">>,   \* 0x101
               <<DPCDData(<<"e","n","h","a","n","c","e","d","_","f","r","a","m","e","_","c","a","p">>, 1, 7),
                 DPCDData(<<"m","a","x","_","l","a","n","e","_","c","o","u","n","t">>, 15, 0)>>))
  @@ (258 :> DPCDReg(<<"T","R","A","I","N","I","N","G","_","P","A","T","T","E","R","N","_","S","E","T">>,   \* 0x102
               <<DPCDData(<<"s","c","r","a","m","b","l","i","n","g","_","d","i","s","a","b","l","e">>, 1, 5),
                 DPCDData(<<"r","e","c","o","v","e","r","e","d","_","c","l","o","c","k","_","o","u","t","_","e","n">>, 1, 4),
                 DPCDData(<<"t","r","a","i","n","i","n","g","_","p","a","t","t","e","r","n","_","s","e","t">>, 3, 0)>>))
  @@ (259 :> DPCDReg(<<"T","R","A","I","N","I","N","G","_","L","A","N","E","0","_","S","E","T">>,   \* 0x103
               <<DPCDData(<<"m","a","x","_","p","r","e","-","e","m","p","h","a","s","i","s","_","r","e","a","c","h","e","d">>, 1, 5),
                 DPCDData(<<"p","r","e","-","e","m","p","h","a","s","i","s","_","s","e","t">>, 3, 3),
                 DPCDData(<<"m","a","x","_","s","w","i","n","g","_","r","e","a","c","h","e","d">>, 1, 2),
                 DPCDData(<<"v","o","l","t","a","g","e"," ","s","w","i","n","g"," ","s","e","t">>, 3, 0)>>))
  @@ (260 :> DPCDReg(<<"T","R","A","I","N","I","N","G","_","L","A","N","E","1","_","S","E","T">>,   \* 0x104
               <<DPCDData(<<"m","a","x","_","p","r","e","-","e","m","p","h","a","s","i","s","_","r","e","a","c","h","e","d">>, 1, 5),
                 DPCDData(<<"p","r","e","-","e","m","p","h","a","s","i","s","_","s","e","t">>, 3, 3),
                 DPCDData(<<"m","a","x","_","s","w","i","n","g","_","r","e","a","c","h","e","d">>, 1, 2),
                 DPCDData(<<"v","o","l","t","a","g","e"," ","s","w","i","n","g"," ","s","e","t">>, 3, 0)>>))
  @@ (261 :> DPCDReg(<<"T","R","A","I","N","I","N","G","_","L","A","N","E","2","_","S","E","T">>,   \* 0x105
               <<DPCDData(<<"m","a","x","_","p","r","e","-","e","m","p","h","a","s","i","s","_","r","e","a","c","h","e","d">>, 1, 5),
                 DPCDData(<<"p","r","e","-","e","m","p","h","a","s","i","s","_","s","e","t">>, 3, 3),
                 DPCDData(<<"m","a","x","_","s","w","i","n","g","_","r","e","a","c","h","e","d">>, 1, 2),
                 DPCDData(<<"v","o","l","t","a","g","e"," ","s","w","i","n","g"," ","s","e","t">>, 3, 0)>>))
  @@ (262 :> DPCDReg(<<"T","R","A","I","N","I","N","G","_","L","A","N","E","3","_","S","E","T">>,   \* 0x106
               <<DPCDData(<<"m","a","x","_","p","r","e","-","e","m","p","h","a","s","i","s","_","r","e","a","c","h","e","d">>, 1, 5),
                 DPCDData(<<"p","r","e","-","e","m","p","h","a","s","i","s","_","s","e","t">>, 3, 3),
                 DPCDData(<<"m","a","x","_","s","w","i","n","g","_","r","e","a","c","h","e","d">>, 1, 2),
                 DPCDData(<<"v","o","l","t","a","g","e"," ","s","w","i","n","g"," ","s","e","t">>, 3, 0)>>))
  @@ (263 :> DPCDReg(<<"D","O","W","N","S","P","R","E","A","D","_","C","T","R","L">>,   \* 0x107
               <<DPCDData(<<"m","s","a","_","t","i","m","i","n","g","_","p","a","r","_","i","g","n","o","r","e","_","e","n">>, 1, 7),
                 DPCDData(<<"s","p","r","e","a","d","_","a","m","p">>, 1, 4)>>))
  @@ (264 :> DPCDReg(<<"M","A","I","N","_","L","I","N","K","_","C","H","A","N","N","E","L","_","C","O","D","I","N","G","_","S","E","T">>,   \* 0x108
               <<DPCDData(<<"s","e","t","_","a","n","s","i"," ","8","b","1","0","b">>, 1, 0)>>))
  @@ (265 :> DPCDReg(<<"I","2","C"," ","s","p","e","e","d"," ","c","o","n","t","r","o","l","/","s","t","a","t","u","s">>,   \* 0x109
               None))
  @@ (266 :> DPCDReg(<<"e","D","P","_","C","O","N","F","I","G","U","R","A","T","I","O","N","_","S","E","T">>,   \* 0x10a
               <<DPCDData(<<"p","a","n","e","l","_","s","e","l","f","_","t","e","s","t","_","e","n","a","b","l","e">>, 1, 7),
                 DPCDData(<<"f","r","a","m","i","n","g","_","c","h","a","n","g","e","_","e","n","a","b","l","e">>, 1, 1),
                 DPCDData(<<"a","l","t","e","r","n","a","t","e","_","s","c","r","a","m","b","e","r","_","r","e","s","e","t","_","e","n","a","b","l","e">>, 1, 0)>>))
  @@ (512 :> DPCDReg(<<"S","I","N","K","_","C","O","U","N","T">>,   \* 0x200
               <<DPCDData(<<"c","p","_","r","e","a","d","y">>, 1, 6),
                 DPCDData(<<"s","i","n","k","_","c","o","u","n","t">>, 63, 0)>>))
  @@ (513 :> DPCDReg(<<"D","E","V","I","C","E","_","S","E","R","V","I","C","E","_","I","R","Q","_","V","E","C","T","O","R">>,   \* 0x201
               <<DPCDData(<<"s","i","n","k","_","s","p","e","c","i","f","i","c","_","i","r","q">>, 1, 6),
                 DPCDData(<<"u","p","_","r","e","q","_","m","s","g","_","r","d","y">>, 1, 5),
                 DPCDData(<<"d","o","w","n","_","r","e","p","_","m","s","g","_","r","d","y">>, 1, 4),
                 DPCDData(<<"m","c","c","s","_","i","r","q">>, 1, 3),
                 DPCDData(<<"c","p","_","i","r","q">>, 1, 2),
                 DPCDData(<<"a","u","t","o","m","a","t","e","d","_","t","e","s","t","_","r","e","q","u","e","s","t">>, 1, 1)>>))
  @@ (514 :> DPCDReg(<<"L","A","N","E","0","_","1","_","S","T","A","T","U","S">>,   \* 0x202
               <<DPCDData(<<"l","a","n","e","1","_","s","y","m","b","o","l","_","l","o","c","k","e","d">>, 1, 6),
                 DPCDData(<<"l","a","n","e","1","_","c","h","a","n","n","e","l","_","e","q","_","d","o","n","e">>, 1, 5),
                 DPCDData(<<"l","a","n","e","1","_","c","r","_","d","o","n","e">>, 1, 4),
                 DPCDData(<<"l","a","n","e","0","_","s","y","m","b","o","l","_","l","o","c","k","e","d">>, 1, 2),
                 DPCDData(<<"l","a","n","e","0","_","c","h","a","n","n","e","l","_","e","q","_","d","o","n","e">>, 1, 1),
                 DPCDData(<<"l","a","n","e","0","_","c","r","_","d","o","n","e">>, 1, 0)>>))
  @@ (515 :> DPCDReg(<<"L","A","N","E","2","_","3","_","S","T","A","T","U","S">>,   \* 0x203
               <<DPCDData(<<"l","a","n","e","3","_","s","y","m","b","o","l","_","l","o","c","k","e","d">>, 1, 6),
                 DPCDData(<<"l","a","n","e","3","_","c","h","a","n","n","e","l","_","e","q","_","d","o","n","e">>, 1, 5),
                 DPCDData(<<"l","a","n","e","3","_","c","r","_","d","o","n","e">>, 1, 4),
                 DPCDData(<<"l","a","n","e","2","_","s","y","m","b","o","l","_","l","o","c","k","e","d">>, 1, 2),
                 DPCDData(<<"l","a","n","e","2","_","c","h","a","n","n","e","l","_","e","q","_","d","o","n","e">>, 1, 1),
                 DPCDData(<<"l","a","n","e","2","_","c","r","_","d","o","n","e">>, 1, 0)>>))
  @@ (516 :> DPCDReg(<<"L","A","N","E","_","A","L","I","G","N","_","_","S","T","A","T","U","S","_","U","P","D","A","T","E","D">>,   \* 0x204
               <<DPCDData(<<"l","i","n","k","_","s","t","a","t","u","s","_","u","p","d","a","t","e","d">>, 1, 7),
                 DPCDData(<<"d","o","w","n","s","t","r","e","a","m","_","p","o","r","t","_","s","t","a","t","u","s","_","c","h","a","n","g","e","d">>, 1, 6),
                 DPCDData(<<"i","n","t","e","r","l","a","n","e","_","a","l","i","g","n","_","d","o","n","e">>, 1, 0)>>))
  @@ (517 :> DPCDReg(<<"S","I","N","K","_","S","T","A","T","U","S">>,   \* 0x205
               <<DPCDData(<<"r","e","c","e","i","v","e","_","p","o","r","t","_","1","_","s","t","a","t","u","s">>, 1, 1),
                 DPCDData(<<"r","e","c","e","i","v","e","_","p","o","r","t","_","0","_","s","t","a","t","u","s">>, 1, 0)>>))
  @@ (518 :> DPCDReg(<<"A","D","J","U","S","T","_","R","E","Q","U","E","S","T","_","L","A","N","E","0","_","1">>,   \* 0x206
               <<DPCDData(<<"p","r","e","-","e","m","p","h","a","s","i","s","_","l","a","n","e","1">>, 3, 6),
                 DPCDData(<<"v","o","l","t","a","g","e","_","s","w","i","n","g","_","l","a","n","e","1">>, 3, 4),
                 DPCDData(<<"p","r","e","-","e","m","p","h","a","s","i","s","_","l","a","n","e","0">>, 3, 2),
                 DPCDData(<<"v","o","l","t","a","g","e","_","s","w","i","n","g","_","l","a","n","e","0">>, 3, 0)>>))
  @@ (519 :> DPCDReg(<<"A","D","J","U","S","T","_","R","E","Q","U","E","S","T","_","L","A","N","E","2","_","3">>,   \* 0x207
               <<DPCDData(<<"p","r","e","-","e","m","p","h","a","s","i","s","_","l","a","n","e","3">>, 3, 6),
                 DPCDData(<<"v","o","l","t","a","g","e","_","s","w","i","n","g","_","l","a","n","e","3">>, 3, 4),
                 DPCDData(<<"p","r","e","-","e","m","p","h","a","s","i","s","_","l","a","n","e","2">>, 3, 2),
                 DPCDData(<<"v","o","l","t","a","g","e","_","s","w","i","n","g","_","l","a","n","e","2">>, 3, 0)>>))

MAX_LEN_REG_NAME ==
  CHOOSE m \in {Len(DPCD_REGS[a].name) : a \in DOMAIN DPCD_REGS} :
    \A a \in DOMAIN DPCD_REGS : Len(DPCD_REGS[a].name) <= m

---------------------------------------------------------------------------
\* Formatting and printing one register.

\* A lookup that falls back on the nearest lower key of the same 16-address row.
Lookup_Range(addr) ==
  LET near == {a \in DOMAIN regs : a <= addr /\ a \div 16 = addr \div 16} IN
  IF near # {}
  THEN [found |-> TRUE, reg |-> regs[CHOOSE a \in near : \A b \in near : b <= a]]
  ELSE [found |-> FALSE, reg |-> DPCDReg(<<>>, None)]

\* try: reg = DPCD_REGS[addr] / except KeyError: an exact match on the key, or
\* nothing found.
Lookup(addr) ==
  IF addr \in DOMAIN regs
  THEN [found |-> TRUE, reg |-> regs[addr]]
  ELSE [found |-> FALSE, reg |-> DPCDReg(<<>>, None)]

reg_addr_str(name, addr) == PadLeft(name, max_len) \o <<" ">> \o FormatHex(addr, 4)

\* The mask applied before the shift.
FieldText_MaskFirst(data, val) ==
  data.name \o <<":", " ">> \o FormatDec(Shr(BitAnd(val, data.mask), data.shift))

\* "{}: {}".format(data.name, (val >> data.shift) & data.mask)
FieldText(data, val) ==
  data.name \o <<":", " ">> \o FormatDec(BitAnd(Shr(val, data.shift), data.mask))

\* A continuation indent one column short.
ContinuationLine_Short(d) == Spaces(max_len + 9) \o <<" ">> \o d

\* "{e:{w}} {d}" with e = "" and w = MAX_LEN_REG_NAME + 10
ContinuationLine(d) == Spaces(max_len + 10) \o <<" ">> \o d

\* The lines print_reg(addr, val, show_data) prints, in order.
print_reg(addr, val, sd) ==
  IF ~Lookup(addr).found
  THEN <<reg_addr_str(<<>>, addr) \o <<":", " ">> \o FormatHex(val, 2)>>
  ELSE LET reg == Lookup(addr).reg IN
       IF sd /\ reg.dpcd_data # <<>>
       THEN LET data == [i \in 1..Len(reg.dpcd_data) |-> FieldText(reg.dpcd_data[i], val)]
            IN  <<reg_addr_str(reg.name, addr) \o <<":", " ">> \o FormatHex(val, 2)
                    \o <<",", " ">> \o data[1]>>
                \o [i \in 1..(Len(data) - 1) |-> ContinuationLine(data[i + 1])]
       ELSE <<reg_addr_str(reg.name, addr) \o <<":", " ">> \o FormatHex(val, 2)>>

---------------------------------------------------------------------------
\* Parsing one line.

\* list(map(lambda h: int(h, 16), regs_str.split(" "))): one result per token.
reg_vals(regs_str) ==
  LET toks == Split(regs_str, " ") IN [i \in 1..Len(toks) |-> IntBase16(toks[i])]

\* A lazy map: values are printed as they are parsed, up to the first bad token.
NumPrinted_Lazy(rv) ==
  IF \A i \in 1..Len(rv) : rv[i].ok THEN Len(rv)
  ELSE (CHOOSE i \in 1..Len(rv) : ~rv[i].ok /\ \A j \in 1..(i - 1) : rv[j].ok) - 1

\* How many of the values reach print_reg: the list is built completely
\* before the loop starts, so one bad token stops the line before any print.
NumPrinted(rv) == IF \A i \in 1..Len(rv) : rv[i].ok THEN Len(rv) ELSE 0

\* The index left out of the address.
EffAddr_NoIndex(addr_base, i) == addr_base

\* An index that keeps counting across lines.
EffAddr_Running(addr_base, i) == addr_base + i + Len(calls)

\* The address handed to print_reg for the byte at 0-based index i.
EffAddr(addr_base, i) == addr_base + i

RECURSIVE SumLen(_, _)
SumLen(blocks, n) == IF n = 0 THEN 0 ELSE Len(blocks[n]) + SumLen(blocks, n - 1)

\* parse_dpcd_line(dpcd_line, show_data): ok is FALSE when a ValueError is
\* raised; lines are the lines printed before returning or raising; calls are
\* the print_reg calls made, each with the offset of its first line.
parse_dpcd_line(dpcd_line, sd) ==
  LET segs == Split(dpcd_line, ":") IN
  IF Len(segs) # 2 THEN [ok |-> FALSE, lines |-> <<>>, calls |-> <<>>]
  ELSE
    LET addr_str  == Strip(segs[1])
        regs_str  == Strip(segs[2])
        addr_base == IntBase16(addr_str)
    IN
    IF ~addr_base.ok THEN [ok |-> FALSE, lines |-> <<>>, calls |-> <<>>]
    ELSE
      LET rv     == reg_vals(regs_str)
          n      == NumPrinted(rv)
          blocks == [i \in 1..n |-> print_reg(EffAddr(addr_base.val, i - 1), rv[i].val, sd)]
      IN  [ok    |-> \A i \in 1..Len(rv) : rv[i].ok,
           lines |-> Flatten(blocks),
           calls |-> [i \in 1..n |-> [addr |-> EffAddr(addr_base.val, i - 1),
                                      val  |-> rv[i].val,
                                      at   |-> SumLen(blocks, i - 1) + 1]]]

---------------------------------------------------------------------------
\* The input of a run: lines "<address><separator><byte> <byte> ...".

\* The last address is "-" and ARABIC-INDIC DIGIT ONE: int(.., 16) reads -1.
AddrTokens ==
  { <<"0","0","0","0">>, <<"f","f","f","f">>, <<"0","0","x","y">>, <<"-","U+0661">> }

Separators == { <<":"," ">>, <<" ">>, <<":",":"," ">> }

\* The second token is VT (U+000B), 0, a: int(.., 16) skips the VT and reads 0x0a.
ByteTokens == { <<"1","1">>, <<"","0","a">>, <<"1","0","0">>, <<"1","g","g">> }

\* A line of a blank and FS (U+001C): empty once stripped.
BlankLines == { <<" ", "">> }

RECURSIVE Join(_)
Join(toks) ==
  IF toks = <<>> THEN <<>>
  ELSE IF Len(toks) = 1 THEN toks[1]
  ELSE toks[1] \o <<" ">> \o Join(Tail(toks))

\* The lines with exactly k byte tokens.
Lines(k) ==
  { a \o s \o Join(t) : a \in AddrTokens, s \in Separators, t \in [1..k -> ByteTokens] }
    \cup (IF k = 0 THEN BlankLines ELSE {})

---------------------------------------------------------------------------
\* The program.

Init ==
  /\ regs = DPCD_REGS
  /\ max_len = MAX_LEN_REG_NAME
  /\ show_data \in BOOLEAN
  /\ out = <<>>
  /\ calls = <<>>
  /\ log = <<>>
  /\ used = 0
  /\ status = "running"

\* The error caught and the loop resumed.
StatusAfterValueError_Caught == "running"

\* What becomes of the run when parse_dpcd_line raises: no try/except around
\* the call, so the exception leaves the loop and the program.
StatusAfterValueError == "error"

Reading == status = "running" /\ Len(log) < MaxLines

Shift(cs, by) == [i \in 1..Len(cs) |-> [cs[i] EXCEPT !.at = @ + by]]

\* One iteration of the input loop on a line that is empty once stripped.
BlankLine(l, k) ==
  /\ Strip(l) = <<>>
  /\ log' = Append(log, [line |-> l, res |-> "blank", from |-> Len(out), to |-> Len(out)])
  /\ used' = used + k
  /\ UNCHANGED <<regs, max_len, show_data, out, calls, status>>

\* One iteration of the input loop on a line that parse_dpcd_line decodes.
DecodeLine(l, k) ==
  /\ Strip(l) # <<>>
  /\ LET r == parse_dpcd_line(Strip(l), show_data) IN
       /\ r.ok
       /\ out' = out \o r.lines
       /\ calls' = calls \o Shift(r.calls, Len(out))
       /\ log' = Append(log, [line |-> l, res |-> "ok", from |-> Len(out),
                              to |-> Len(out) + Len(r.lines)])
  /\ used' = used + k
  /\ UNCHANGED <<regs, max_len, show_data, status>>

\* One iteration of the input loop on a line for which parse_dpcd_line raises
\* ValueError: nothing catches it, the program ends with a traceback.
FailLine(l, k) ==
  /\ Strip(l) # <<>>
  /\ LET r == parse_dpcd_line(Strip(l), show_data) IN
       /\ ~r.ok
       /\ out' = out \o r.lines
       /\ calls' = calls \o Shift(r.calls, Len(out))
       /\ log' = Append(log, [line |-> l, res |-> "error", from |-> Len(out),
                              to |-> Len(out) + Len(r.lines)])
  /\ used' = used + k
  /\ status' = StatusAfterValueError
  /\ UNCHANGED <<regs, max_len, show_data>>

\* End of input: the loop ends and the program exits normally.
Eof ==
  /\ status = "running"
  /\ status' = "done"
  /\ UNCHANGED <<regs, max_len, show_data, out, calls, log, used>>

Next ==
  \/ Reading /\ \E k \in 0..(MaxBytes - used) : \E l \in Lines(k) : BlankLine(l, k)
  \/ Reading /\ \E k \in 0..(MaxBytes - used) : \E l \in Lines(k) : DecodeLine(l, k)
  \/ Reading /\ \E k \in 0..(MaxBytes - used) : \E l \in Lines(k) : FailLine(l, k)
  \/ Eof

Spec == Init /\ [][Next]_vars

\* print_reg called directly, once, from the initial state.
RegAddrs ==
  { a \in (0 - Window)..(519 + Window) :
      \E c \in DOMAIN DPCD_REGS : a - c <= Window /\ c - a <= Window }
    \cup {4095, 65535, 65536}

PrintRegCall(addr, val) ==
  /\ out' = out \o print_reg(addr, val, show_data)
  /\ calls' = <<[addr |-> addr, val |-> val, at |-> 1]>>
  /\ UNCHANGED <<regs, max_len, show_data, log, used, status>>

Fresh == status = "running" /\ calls = <<>> /\ log = <<>>

NextReg == Fresh /\ \E addr \in RegAddrs : \E val \in 0..MaxVal : PrintRegCall(addr, val)

SpecReg == Init /\ [][NextReg]_vars

---------------------------------------------------------------------------
\* Reading printed lines back, character by character.

Has(line, c) == \E i \in 1..Len(line) : line[i] = c

FirstIndex(line, c) ==
  CHOOSE i \in 1..Len(line) : line[i] = c /\ \A j \in 1..(i - 1) : line[j] # c

AllBlank(t) == \A i \in 1..Len(t) : t[i] = " "

IsLowerHexText(t) == t # <<>> /\ \A i \in 1..Len(t) : \E d \in 1..16 : HexLower[d] = t[i]

IsDecimalText(t) == t # <<>> /\ \A i \in 1..Len(t) : \E d \in 1..10 : HexLower[d] = t[i]

Unsigned(t) == IF t # <<>> /\ Head(t) = "-" THEN Tail(t) ELSE t

RECURSIVE ReadDigits(_, _)
ReadDigits(t, base) ==
  IF t = <<>> THEN 0
  ELSE base * ReadDigits(SubSeq(t, 1, Len(t) - 1), base)
         + (CHOOSE d \in 1..16 : HexLower[d] = t[Len(t)]) - 1

ReadHex(t) == IF t # <<>> /\ Head(t) = "-" THEN 0 - ReadDigits(Tail(t), 16) ELSE ReadDigits(t, 16)

\* The position before the address text of a header line: the last blank
\* before the first colon.
AddrFrom(line) ==
  LET k == FirstIndex(line, ":") IN
  CHOOSE i \in 1..(k - 1) : line[i] = " " /\ \A j \in (i + 1)..(k - 1) : line[j] # " "

NameText(line) == SubSeq(line, 1, AddrFrom(line) - 1)

AddrText(line) == SubSeq(line, AddrFrom(line) + 1, FirstIndex(line, ":") - 1)

\* The raw value text of a header line: after ": ", up to the comma or the end.
ValText(line) ==
  LET k == FirstIndex(line, ":")
      e == IF Has(line, ",") THEN FirstIndex(line, ",") - 1 ELSE Len(line)
  IN  SubSeq(line, k + 2, e)

\* The "<field-name>: <value>" text of a header line and of a continuation line.
HeaderField(line) == SubSeq(line, FirstIndex(line, ",") + 2, Len(line))

ContField(line) == LStrip(line)

FieldName(f) == SubSeq(f, 1, FirstIndex(f, ":") - 1)

FieldValueText(f) == SubSeq(f, FirstIndex(f, ":") + 2, Len(f))

\* Bit b of n >= 0.
Bit(n, b) == (n \div Pow2(b)) % 2

\* (v >> shift) & mask, bit by bit: bit b of the result is bit b of the mask
\* and bit b + shift of v.
RECURSIVE Extracted(_, _, _, _)
Extracted(v, mask, shift, b) ==
  IF b < 0 THEN 0
  ELSE Bit(mask, b) * Bit(v, b + shift) * Pow2(b) + Extracted(v, mask, shift, b - 1)

\* Position of the highest set bit of mask, plus one (0 for mask = 0).
RECURSIVE BitWidth(_)
BitWidth(mask) == IF mask = 0 THEN 0 ELSE 1 + BitWidth(mask \div 2)

\* The print_reg calls made for one logged line, and what a line's text says.
CallsOf(e) == SelectSeq(calls, LAMBDA c : c.at > e.from /\ c.at <= e.to)

BaseOf(l) == IntBase16(Strip(Split(Strip(l), ":")[1])).val

TokensOf(l) == Split(Strip(Split(Strip(l), ":")[2]), " ")

Last(s) == s[Len(s)]

---------------------------------------------------------------------------
\* C1: every decoded line with base address b and n >= 1 byte values makes n
\* print_reg calls, in input order, the i-th (0-based) with address b + i and
\* the i-th value; in compact mode the line yields exactly n output lines, the
\* i-th showing address b + i and the i-th value.
C1_CallPerByte ==
  \A k \in 1..Len(log) :
    log[k].res = "ok" =>
      LET e    == log[k]
          b    == BaseOf(e.line)
          toks == TokensOf(e.line)
          n    == Len(toks)
          cs   == CallsOf(e)
      IN  /\ n >= 1
          /\ Len(cs) = n
          /\ \A i \in 1..n : cs[i].addr = b + (i - 1) /\ cs[i].val = IntBase16(toks[i]).val
          /\ ~show_data =>
               /\ e.to - e.from = n
               /\ \A i \in 1..n :
                    /\ cs[i].at = e.from + i
                    /\ ReadHex(AddrText(out[e.from + i])) = b + (i - 1)
                    /\ ReadHex(ValText(out[e.from + i])) = IntBase16(toks[i]).val

\* "0000: 11 0a" (a VT before the 0a) decoded in compact mode: two lines, for
\* 0x0000 and 0x0001.
C1_Witness ==
  /\ ~show_data
  /\ Len(log) = 1
  /\ log[1].res = "ok"
  /\ log[1].line = <<"0","0","0","0",":"," ","1","1"," ","","0","a">>
  /\ Len(out) = 2
  /\ calls[2].addr = 1 /\ calls[2].val = 10

\* C2: in expanded mode a catalogued address with k >= 1 fields and any value v
\* prints exactly k lines, the header with the first field and one continuation
\* per remaining field in declared order, each field shown as
\* "<field-name>: <(v >> shift) & mask in decimal>".
C2_ExpandedFields ==
  (calls # <<>> /\ show_data /\ calls[1].addr \in DOMAIN DPCD_REGS
     /\ DPCD_REGS[calls[1].addr].dpcd_data # <<>>) =>
    LET fields == DPCD_REGS[calls[1].addr].dpcd_data
        v      == calls[1].val
        text(j) == IF j = 1 THEN HeaderField(out[1]) ELSE ContField(out[j])
    IN  /\ Len(out) = Len(fields)
        /\ NameText(out[1]) = PadLeft(DPCD_REGS[calls[1].addr].name, MAX_LEN_REG_NAME)
        /\ ReadHex(AddrText(out[1])) = calls[1].addr
        /\ ReadHex(ValText(out[1])) = v
        /\ \A j \in 1..Len(fields) :
             /\ Has(text(j), ":")
             /\ FieldName(text(j)) = fields[j].name
             /\ IsDecimalText(FieldValueText(text(j)))
             /\ ReadDigits(FieldValueText(text(j)), 10)
                  = Extracted(v, fields[j].mask, fields[j].shift, 7)

\* Address 0x002 with value 0x81, expanded: fields 1, 0, 1.
C2_Witness ==
  /\ show_data
  /\ calls # <<>> /\ calls[1].addr = 2 /\ calls[1].val = 129
  /\ Len(out) = 3
  /\ FieldValueText(HeaderField(out[1])) = <<"1">>
  /\ FieldValueText(ContField(out[2])) = <<"0">>
  /\ FieldValueText(ContField(out[3])) = <<"1">>

\* C3: for an address that is no key of DPCD_REGS, in either mode, print_reg
\* raises nothing and prints exactly one line: a blank name, the address and the
\* raw value; an address next to a catalogued one is unknown all the same.
C3_UnknownAddress ==
  (calls # <<>> /\ log = <<>> /\ calls[1].addr \notin DOMAIN DPCD_REGS) =>
    /\ status = "running"
    /\ Len(out) = 1
    /\ Has(out[1], ":")
    /\ AllBlank(SubSeq(out[1], 1, MAX_LEN_REG_NAME + 1))
    /\ AddrFrom(out[1]) = MAX_LEN_REG_NAME + 1
    /\ ReadHex(AddrText(out[1])) = calls[1].addr
    /\ IsLowerHexText(Unsigned(AddrText(out[1])))
    /\ out[1][FirstIndex(out[1], ":") + 1] = " "
    /\ ~Has(out[1], ",")
    /\ IsLowerHexText(Unsigned(ValText(out[1])))
    /\ ReadHex(ValText(out[1])) = calls[1].val

\* Address 0x00f, next to the catalogued 0x00e, in expanded mode.
C3_Witness ==
  /\ show_data
  /\ calls # <<>> /\ log = <<>>
  /\ calls[1].addr = 15 /\ calls[1].val = 123
  /\ 14 \in DOMAIN DPCD_REGS
  /\ Len(out) = 1

\* The input format is "<hex-address>: <hex-byte> <hex-byte> ...": the address
\* segment is what stands before the first colon, the byte tokens are the runs
\* of non-blank characters after it, and a hexadecimal text is a non-empty run
\* of the characters 0-9, a-f, A-F.
HexadecimalChars ==
  { "0", "1", "2", "3", "4", "5", "6", "7", "8", "9",
    "a", "b", "c", "d", "e", "f", "A", "B", "C", "D", "E", "F" }

IsHexadecimalText(t) == t # <<>> /\ \A i \in 1..Len(t) : t[i] \in HexadecimalChars

AddrSegment(l) == Strip(SubSeq(l, 1, FirstIndex(l, ":") - 1))

HasNonHexToken(l) ==
  \E i \in (FirstIndex(l, ":") + 1)..Len(l) :
    l[i] \notin Whitespace /\ l[i] \notin HexadecimalChars

NotHexadecimalLine(l) ==
  \/ ~Has(l, ":")
  \/ Has(l, ":") /\ (~IsHexadecimalText(AddrSegment(l)) \/ HasNonHexToken(l))

\* C4 (as stated): every non-blank line that has no colon, or whose address
\* segment is not hexadecimal, or that holds a non-hexadecimal byte token, is
\* rejected with an error and adds no line to the output.
C4_Original ==
  \A k \in 1..Len(log) :
    (Strip(log[k].line) # <<>> /\ NotHexadecimalLine(log[k].line)) =>
      (log[k].res = "error" /\ log[k].to = log[k].from)

\* A character that occurs in no text int(.., 16) accepts and in no separator.
NotHexChar(c) ==
  ~IsHexDigit(c) /\ c \notin {"x", "X", "_", "+", "-", ":"} /\ c \notin Whitespace

Malformed(l) == Strip(l) # <<>> /\ (~Has(l, ":") \/ \E i \in 1..Len(l) : NotHexChar(l[i]))

\* C4, the part the code keeps: a line that parse_dpcd_line does reject (no
\* colon, or a character that int(.., 16) takes in no position) ends in an
\* error before anything is printed for it, so the output and the print_reg
\* calls made for the earlier lines are all there is.
C4_NoPartialOutput ==
  [][(log' # log /\ Malformed(Last(log').line)) =>
       (Last(log').res = "error" /\ status' = "error" /\ out' = out /\ calls' = calls)]_vars

\* An earlier line was decoded, then a line with a bad byte token failed.
C4_Witness ==
  /\ Len(log) = 2
  /\ log[1].res = "ok"
  /\ log[2].res = "error"
  /\ Has(log[2].line, ":") /\ Has(log[2].line, "g")
  /\ out # <<>> /\ Len(out) = log[1].to

\* C5 (as stated): no byte value outside 0..255 gets past parsing, so no register
\* line is printed for one.
C5_ByteRange == \A i \in 1..Len(calls) : calls[i].val >= 0 /\ calls[i].val <= 255

\* C6 (as stated): on every header line of an accepted line the address is
\* exactly 4 lowercase hex digits and the value exactly 2.
C6_Original ==
  \A i \in 1..Len(calls) :
    LET h == out[calls[i].at] IN
      /\ Len(AddrText(h)) = 4 /\ IsLowerHexText(AddrText(h))
      /\ Len(ValText(h)) = 2 /\ IsLowerHexText(ValText(h))

\* C6 (amended): the address is printed in lowercase hex, zero-padded to a
\* minimum width of 4, and the value to a minimum width of 2: exactly 4 (2)
\* digits when the number is in 0..0xffff (0..0xff), more digits and no padding
\* above that, a leading "-" inside the width below zero.
HexField(t, n, w) ==
  /\ IsLowerHexText(Unsigned(t))
  /\ ReadHex(t) = n
  /\ (n < 0) = (t[1] = "-")
  /\ Len(t) >= w
  /\ (Len(t) > w) => Unsigned(t)[1] # "0"

C6_MinimumWidth ==
  \A i \in 1..Len(calls) :
    LET h == out[calls[i].at]
        c == calls[i]
    IN  /\ HexField(AddrText(h), c.addr, 4)
        /\ HexField(ValText(h), c.val, 2)
        /\ (c.addr >= 0 /\ c.addr <= 65535) => Len(AddrText(h)) = 4
        /\ (c.val >= 0 /\ c.val <= 255) => Len(ValText(h)) = 2
        /\ c.addr > 65535 => Len(AddrText(h)) > 4

\* "ffff: 11 0a": the second byte is at 0x10000, printed with 5 digits.
C6_Witness ==
  \E i \in 1..Len(calls) :
    /\ calls[i].addr = 65536
    /\ AddrText(out[calls[i].at]) = <<"1","0","0","0","0">>
    /\ Len(ValText(out[calls[i].at])) = 2

\* C7 (as stated): after a line fails to parse the input loop goes on.
C7_Original == (\E k \in 1..Len(log) : log[k].res = "error") => status # "error"

\* C7 (amended): the first line that fails to parse ends the run: the error
\* is not caught, no step follows it, so no later line is decoded; the failing
\* line is the last one read and the output of the lines before it stands.
C7_FirstErrorEndsRun ==
  [][/\ status # "error"
     /\ \A k \in 1..Len(log) : log[k].res # "error"
     /\ (Len(log') > Len(log) /\ Last(log').res = "error") =>
          (status' = "error" /\ out' = out)]_vars

\* The first line failed to parse while the input had more lines to give.
C7_Witness ==
  /\ status = "error"
  /\ Len(log) = 1
  /\ Len(log) < MaxLines
  /\ log[1].res = "error"

\* C8: decoding is stateless: the lines printed for a line are those it prints
\* when decoded first, equal lines print equal blocks wherever they stand in
\* the input, and DPCD_REGS and MAX_LEN_REG_NAME never change.
Block(e) == SubSeq(out, e.from + 1, e.to)

C8_Stateless ==
  /\ regs = DPCD_REGS
  /\ max_len = MAX_LEN_REG_NAME
  /\ \A j, k \in 1..Len(log) : log[j].line = log[k].line => Block(log[j]) = Block(log[k])
  /\ \A k \in 1..Len(log) :
       log[k].res = "ok" =>
         Block(log[k]) = parse_dpcd_line(Strip(log[k].line), show_data).lines

\* The same line decoded twice in one run.
C8_Witness ==
  /\ Len(log) = 2
  /\ log[1].res = "ok" /\ log[2].res = "ok"
  /\ log[1].line = log[2].line
  /\ Len(out) >= 2

\* C9: the catalog holds exactly the addresses 0x000-0x00e, 0x100-0x10a and
\* 0x200-0x207; every entry has a non-empty name, and every field satisfies
\* shift + bit-width(mask) <= 8.
C9_CatalogWellFormed ==
  /\ DOMAIN regs = (0..14) \cup (256..266) \cup (512..519)
  /\ \A a \in DOMAIN regs :
       /\ regs[a].name # <<>>
       /\ \A j \in 1..Len(regs[a].dpcd_data) :
            /\ regs[a].dpcd_data[j].shift >= 0
            /\ regs[a].dpcd_data[j].mask >= 0
            /\ regs[a].dpcd_data[j].shift + BitWidth(regs[a].dpcd_data[j].mask) <= 8

\* A catalogued register with fields has been looked up and printed.
C9_Witness ==
  /\ calls # <<>>
  /\ calls[1].addr = 0
  /\ show_data
  /\ Len(regs[0].dpcd_data) = 2
  /\ regs[0].dpcd_data[1].shift + BitWidth(regs[0].dpcd_data[1].mask) = 8
  /\ Len(out) = 2

\* C10: for addresses in 0..0xffff and values in 0..0xff, the ':' after the
\* address has MAX_LEN_REG_NAME + 5 characters before it on every header line,
\* and in expanded mode the field text of the header and of every continuation
\* line has MAX_LEN_REG_NAME + 11 characters before it.
C10_Columns ==
  (calls # <<>> /\ log = <<>>
     /\ calls[1].addr >= 0 /\ calls[1].addr <= 65535
     /\ calls[1].val >= 0 /\ calls[1].val <= 255) =>
    LET col == MAX_LEN_REG_NAME + 11 IN
    /\ FirstIndex(out[1], ":") = MAX_LEN_REG_NAME + 5 + 1
    /\ Len(out) >= 2 =>
         LET fields == DPCD_REGS[calls[1].addr].dpcd_data IN
         /\ Len(fields) = Len(out)
         /\ SubSeq(out[1], col - 1, col) = <<",", " ">>
         /\ SubSeq(out[1], col + 1, col + Len(fields[1].name)) = fields[1].name
         /\ \A j \in 2..Len(out) :
              /\ AllBlank(SubSeq(out[j], 1, col))
              /\ SubSeq(out[j], col + 1, col + Len(fields[j].name)) = fields[j].name

\* A register with three fields printed in expanded mode.
C10_Witness ==
  /\ show_data
  /\ calls # <<>> /\ log = <<>>
  /\ calls[1].addr = 2 /\ calls[1].val = 129
  /\ Len(out) = 3
  /\ out[3][MAX_LEN_REG_NAME + 12] = "m"

====
